---- MODULE Spec2Model ----
(***************************************************************************)
(* til::small_vector<T, N> (src/src/inc/til/small_vector.h): a vector that *)
(* keeps up to N elements in a buffer embedded in the object and moves to  *)
(* a malloc'ed buffer beyond that.                                         *)
(*                                                                         *)
(* Memory is a set of blocks.  Block 0 is the embedded array _buffer, the  *)
(* blocks 1..HeapBlocks are what std::malloc can hand out.  A pointer is a *)
(* block number (the code only ever stores the address of slot 0 of a      *)
(* block in _data), NullPtr is the null pointer.  A slot of a block is     *)
(* either raw storage, a constructed T with a known value, or a            *)
(* constructed T whose value is unspecified (a moved-from object, or an    *)
(* object constructed from a source that was not alive).                   *)
(***************************************************************************)
EXTENDS Integers, Sequences, FiniteSets, TLC

\* ---------------------------------------------------------------- bounds
N == 1              \* template parameter N: slots of the embedded buffer
MaxVal == 1         \* T has the values 0..MaxVal, 0 is the value-initialized T
HeapBlocks == 2     \* blocks std::malloc can hand out before it runs dry
MaxDead == 1        \* erase(pos) is called while fewer than MaxDead elements
                    \* of [begin(), end()) are not alive with a known value
MaxLen == 3         \* the calls made leave at most MaxLen elements

\* ------------------------------------------------------ program constants
Bits == 4                       \* width of size_t
SIZE_MAX == 2 ^ Bits - 1        \* static_cast<size_t>(-1)
SizeofT == 2                    \* sizeof(T)
max_size == SIZE_MAX \div SizeofT

\* ----------------------------------------------------------------- memory
InlineBuf == 0
NullPtr == -1
Blocks == 1..HeapBlocks
Values == 0..MaxVal
Raw == -1           \* storage without an object
Unspec == -2        \* a constructed object whose value is unspecified

Max(a, b) == IF a > b THEN a ELSE b
Min(a, b) == IF a < b THEN a ELSE b
RawBlock(n) == [i \in 1..n |-> Raw]

VARIABLES
    _data,          \* block _data points at
    _capacity,
    _size,
    mem,            \* contents of every block, block 0 being _buffer
    allocated,      \* heap blocks malloc'ed and not yet freed
    pc,             \* "alive", "destroyed" (destructor ran), "crashed"
    last,           \* the call that has just ended: its name, how it ended,
                    \* what it returned, what it freed and how it left the
                    \* container it was passed; None once the caller went on
    pushed          \* the values of the successful push_back calls made on
                    \* the container since it was empty, Stale once another
                    \* member function was called on the non-empty container

vars == <<_data, _capacity, _size, mem, allocated, pc, last, pushed>>

\* ------------------------------------------------------ <memory> algorithms
\* What a T move-constructed from the slot s holds.
MovedInto(s) == IF s \in Values THEN s ELSE Unspec
\* What is left in the slot s after it was moved from.
MovedFrom(s) == IF s = Raw THEN Raw ELSE Unspec

\* uninitialized_move_n that stops one element short.
uninitialized_move_n_short(m, from, n, to) ==
    IF from = to
    THEN [m EXCEPT ![to] = [i \in DOMAIN @ |-> IF i < n THEN Unspec ELSE @[i]]]
    ELSE [m EXCEPT
            ![to] = [i \in DOMAIN @ |-> IF i < n THEN MovedInto(m[from][i]) ELSE @[i]],
            ![from] = [i \in DOMAIN @ |-> IF i < n THEN MovedFrom(@[i]) ELSE @[i]]]

\* std::uninitialized_move_n(from, n, to) on slot 0 of two blocks.
uninitialized_move_n(m, from, n, to) ==
    IF from = to
    THEN [m EXCEPT ![to] = [i \in DOMAIN @ |-> IF i <= n THEN Unspec ELSE @[i]]]
    ELSE [m EXCEPT
            ![to] = [i \in DOMAIN @ |-> IF i <= n THEN MovedInto(m[from][i]) ELSE @[i]],
            ![from] = [i \in DOMAIN @ |-> IF i <= n THEN MovedFrom(@[i]) ELSE @[i]]]

\* destroy_n that leaves the last of the n elements alone.
destroy_n_short(m, p, first, n) ==
    [m EXCEPT ![p] = [i \in DOMAIN @ |->
        IF i > first /\ i < first + n THEN Raw ELSE @[i]]]

\* std::destroy_n(p + first, n): slots first .. first+n-1 (0-based) of block p.
destroy_n(m, p, first, n) ==
    [m EXCEPT ![p] = [i \in DOMAIN @ |->
        IF i > first /\ i <= first + n THEN Raw ELSE @[i]]]

\* std::uninitialized_fill_n(p + first, n, v), also uninitialized_value_construct_n
\* with v = 0.
uninitialized_fill_n(m, p, first, n, v) ==
    [m EXCEPT ![p] = [i \in DOMAIN @ |->
        IF i > first /\ i <= first + n THEN v ELSE @[i]]]

\* The results std::malloc can give: null, or a block not in use.  Blocks are
\* told apart only by equality, so the free block with the least number
\* stands for any of them.
MallocResults ==
    {NullPtr} \cup {b \in Blocks \ allocated : \A c \in Blocks \ allocated : b <= c}

\* The results of the std::malloc calls of an operation that calls it only
\* when called is true.
Mallocs(called) == IF called THEN MallocResults ELSE {NullPtr}

\* std::free(p) is defined only for a block malloc gave and that is still
\* allocated.
FreeIsValid(al, p) == p \in al
FreeMem(m, al, p) == IF FreeIsValid(al, p) THEN [m EXCEPT ![p] = <<>>] ELSE m
FreeAlloc(al, p) == al \ {p}

\* A block no pointer of the container points at any more can not be read
\* again: mem keeps the contents of _buffer and of the block d that _data
\* points at, allocated still tells whether the other blocks were freed.
Reachable(m, d) == [b \in DOMAIN m |-> IF b \in Blocks /\ b # d THEN <<>> ELSE m[b]]

\* The elements [begin(), end()).
Elems == [i \in 1.._size |-> mem[_data][i]]

\* ------------------------------------------------------------ construction
\* Another small_vector<T, N>, as swap sees it: its _capacity, its _size and
\* the slots of the buffer its _data points at.  NoOther stands for none.
NoOther == [capacity |-> 0, size |-> 0, buf |-> <<>>]

Call(op, outcome, ret, freed, badfree) ==
    [op |-> op, outcome |-> outcome, ret |-> ret, freed |-> freed, badfree |-> badfree,
     other |-> NoOther]

NoArg == -1
NoFree == -2    \* no call of std::free (a pointer is >= -1)
Stale == <<NoArg>>

\* small_vector(): _data{ &_buffer[0] }, _capacity = N, _size = 0.
Init ==
    /\ _data = InlineBuf
    /\ _capacity = N
    /\ _size = 0
    /\ mem = [b \in {InlineBuf} \cup Blocks |-> IF b = InlineBuf THEN RawBlock(N) ELSE <<>>]
    /\ allocated = {}
    /\ pc = "alive"
    /\ last = Call("small_vector", "ok", NoArg, NoFree, FALSE)
    /\ pushed = <<>>

\* No call has just ended.
None == Call("none", "ok", NoArg, NoFree, FALSE)

\* A member function is called on a live object, by a caller that is done
\* with the call before.
Callable == pc = "alive" /\ last = None

\* The caller goes on after a call.
Return ==
    /\ last # None
    /\ last' = None
    /\ UNCHANGED <<_data, _capacity, _size, mem, allocated, pc, pushed>>

\* std::free of a pointer malloc did not give is undefined: the call may
\* return as if nothing happened, or the process may be aborted.
AfterFree(badfree) == IF badfree THEN {"alive", "crashed"} ELSE {"alive"}

\* pushed after a call of anything but push_back that leaves sz elements.
NotAPush(sz) == IF sz = 0 THEN <<>> ELSE Stale

\* A call that returned early, or threw, before it changed anything.
Unchanged(op, outcome, ret) ==
    /\ UNCHANGED <<_data, _capacity, _size, mem, allocated, pc>>
    /\ last' = Call(op, outcome, ret, NoFree, FALSE)
    /\ pushed' = NotAPush(_size)

\* ------------------------------------------------------------------- _grow
\* The new capacity without the cap / 2 term.
GrowNewCap_exact_fit(cap, add) == (cap + add) % (2 ^ Bits)

\* cap + std::max(add, cap / 2) in size_t arithmetic.
GrowNewCap(cap, add) == (cap + Max(add, cap \div 2)) % (2 ^ Bits)

\* The test without its first half, which is the one that sees a wrapped sum.
GrowTooLong_no_wrap_test(cap, newCap) == newCap > max_size

\* newCap < cap || newCap > max_size()
GrowTooLong(cap, newCap) == newCap < cap \/ newCap > max_size

\* if (_capacity != N) std::free(_data), as _grow, clear and the destructor
\* decide it.
OwnsHeap(cap) == cap # N

\* The members and the memory as a call found them.
Kept(outcome) ==
    [outcome |-> outcome, data |-> _data, capacity |-> _capacity, mem |-> mem,
     allocated |-> allocated, freed |-> NoFree, badfree |-> FALSE]

\* How _grow(add) ends where std::malloc returns p: _throw_too_long(),
\* _throw_alloc(), or by returning.
GrowOutcome(add, p) ==
    IF GrowTooLong(_capacity, GrowNewCap(_capacity, add)) THEN "length_error"
    ELSE IF p = NullPtr THEN "bad_alloc"
    ELSE "ok"

\* _grow that sets _capacity before it looks at what std::malloc returned.
_grow_sets_capacity_first(add, p) ==
    LET cap == _capacity
        newCap == GrowNewCap(cap, add)
    IN  IF GrowTooLong(cap, newCap) THEN Kept("length_error")
        ELSE IF p = NullPtr THEN [Kept("bad_alloc") EXCEPT !.capacity = newCap]
        ELSE LET m1 == [mem EXCEPT ![p] = RawBlock(newCap)]
                 al1 == allocated \cup {p}
                 m2 == uninitialized_move_n(m1, _data, _size, p)
             IN  IF OwnsHeap(_capacity)
                 THEN [outcome |-> "ok", data |-> p, capacity |-> newCap,
                       mem |-> FreeMem(m2, al1, _data),
                       allocated |-> FreeAlloc(al1, _data),
                       freed |-> _data, badfree |-> ~FreeIsValid(al1, _data)]
                 ELSE [outcome |-> "ok", data |-> p, capacity |-> newCap,
                       mem |-> Reachable(m2, p), allocated |-> al1,
                       freed |-> NoFree, badfree |-> FALSE]

\* _grow(add) where std::malloc returns p.  The result is what _grow leaves
\* behind: how it ended, the members it set, the memory, and the pointer it
\* handed to std::free.
_grow(add, p) ==
    LET cap == _capacity
        newCap == GrowNewCap(cap, add)
    IN  IF GrowOutcome(add, p) # "ok" THEN Kept(GrowOutcome(add, p))
        ELSE LET m1 == [mem EXCEPT ![p] = RawBlock(newCap)]
                 al1 == allocated \cup {p}
                 m2 == uninitialized_move_n(m1, _data, _size, p)
             IN  IF OwnsHeap(_capacity)
                 THEN [outcome |-> "ok", data |-> p, capacity |-> newCap,
                       mem |-> FreeMem(m2, al1, _data),
                       allocated |-> FreeAlloc(al1, _data),
                       freed |-> _data, badfree |-> ~FreeIsValid(al1, _data)]
                 ELSE [outcome |-> "ok", data |-> p, capacity |-> newCap,
                       mem |-> Reachable(m2, p), allocated |-> al1,
                       freed |-> NoFree, badfree |-> FALSE]

\* The exception of _grow leaves the caller: the members are as _grow left
\* them, nothing after the call of _grow runs.
Thrown(op, g) ==
    /\ last' = Call(op, g.outcome, NoArg, g.freed, g.badfree)
    /\ _size' = _size
    /\ _data' = g.data
    /\ _capacity' = g.capacity
    /\ mem' = g.mem
    /\ allocated' = g.allocated
    /\ pc' \in AfterFree(g.badfree)

\* --------------------------------------------------- push_back, emplace_back
\* The test for a full buffer, taken one element early.
AppendGrows_early(sz, cap) == sz + 1 >= cap

\* if (_size == _capacity)
AppendGrows(sz, cap) == sz = cap

\* if (_size == _capacity) _grow(1); new (_data + _size) T(value); _size++;
\* emplace_back returns a reference to the new element, here its index.
AppendOne(op, v) ==
    /\ Callable
    /\ \E p \in Mallocs(AppendGrows(_size, _capacity)) :
        LET grows == AppendGrows(_size, _capacity)
            g == IF grows THEN _grow(1, p) ELSE Kept("ok")
        IN  IF grows /\ GrowOutcome(1, p) # "ok"
            THEN Thrown(op, g)
            ELSE /\ _size' = _size + 1
                 /\ _data' = g.data
                 /\ _capacity' = g.capacity
                 /\ mem' = [g.mem EXCEPT ![g.data][_size + 1] = v]
                 /\ allocated' = g.allocated
                 /\ pc' \in AfterFree(g.badfree)
                 /\ last' = Call(op, "ok", IF op = "emplace_back" THEN _size ELSE NoArg,
                                 g.freed, g.badfree)
    /\ _size' <= MaxLen

push_back(v) ==
    /\ AppendOne("push_back", v)
    /\ pushed' = IF last'.outcome # "ok" \/ pushed = Stale THEN pushed ELSE Append(pushed, v)

emplace_back(v) ==
    /\ AppendOne("emplace_back", v)
    /\ pushed' = NotAPush(_size')

\* ------------------------------------------------------------------ resize
\* resize(newSize) fills with T{}, resize(newSize, value) with value.
ResizeTo(op, newSize, fill) ==
    /\ Callable
    /\ IF newSize < _size
       THEN /\ _size' = newSize
            /\ mem' = destroy_n(mem, _data, newSize, _size - newSize)
            /\ UNCHANGED <<_data, _capacity, allocated, pc>>
            /\ last' = Call(op, "ok", NoArg, NoFree, FALSE)
       ELSE IF newSize > _size
       THEN \E p \in Mallocs(newSize > _capacity) :
            LET grows == newSize > _capacity
                g == IF grows THEN _grow(newSize - _capacity, p) ELSE Kept("ok")
            IN  IF grows /\ GrowOutcome(newSize - _capacity, p) # "ok"
                THEN Thrown(op, g)
                ELSE /\ _size' = newSize
                     /\ _data' = g.data
                     /\ _capacity' = g.capacity
                     /\ mem' = uninitialized_fill_n(g.mem, g.data, _size, newSize - _size, fill)
                     /\ allocated' = g.allocated
                     /\ pc' \in AfterFree(g.badfree)
                     /\ last' = Call(op, "ok", NoArg, g.freed, g.badfree)
       ELSE /\ UNCHANGED <<_data, _capacity, _size, mem, allocated, pc>>
            /\ last' = Call(op, "ok", NoArg, NoFree, FALSE)
    /\ pushed' = NotAPush(_size')

resize(newSize) == ResizeTo("resize", newSize, 0)

resize_value(newSize, value) == ResizeTo("resize_value", newSize, value)

\* ----------------------------------------------------------- shrink_to_fit
\* The capacity shrink_to_fit records for the buffer it moved into.
ShrinkCapacity(sz) == sz

\* The test that keeps the embedded buffer as the target, taken one element
\* late.
ShrinkAllocates_late(sz) == sz > N + 1

\* if (_size > N): the elements do not fit the embedded buffer, malloc.
ShrinkAllocates(sz) == sz > N

shrink_to_fit ==
    /\ Callable
    /\ IF _capacity = N \/ _size = _capacity
       THEN Unchanged("shrink_to_fit", "ok", NoArg)
       ELSE \E p \in Mallocs(ShrinkAllocates(_size)) :
            IF ShrinkAllocates(_size) /\ p = NullPtr
            THEN Unchanged("shrink_to_fit", "bad_alloc", NoArg)
            ELSE LET data == IF ShrinkAllocates(_size) THEN p ELSE InlineBuf
                     m1 == IF ShrinkAllocates(_size)
                           THEN [mem EXCEPT ![p] = RawBlock(_size)] ELSE mem
                     al1 == IF ShrinkAllocates(_size) THEN allocated \cup {p} ELSE allocated
                     m2 == uninitialized_move_n(m1, _data, _size, data)
                     badfree == ~FreeIsValid(al1, _data)
                 IN  /\ mem' = FreeMem(m2, al1, _data)
                     /\ allocated' = FreeAlloc(al1, _data)
                     /\ _data' = data
                     /\ _capacity' = ShrinkCapacity(_size)
                     /\ _size' = _size
                     /\ pc' \in AfterFree(badfree)
                     /\ last' = Call("shrink_to_fit", "ok", NoArg, _data, badfree)
                     /\ pushed' = NotAPush(_size)

\* ------------------------------------------------------------------- clear
clear ==
    /\ Callable
    /\ LET m1 == destroy_n(mem, _data, 0, _size)
           dofree == OwnsHeap(_capacity)
           badfree == dofree /\ ~FreeIsValid(allocated, _data)
       IN  /\ mem' = IF dofree THEN FreeMem(m1, allocated, _data) ELSE Reachable(m1, InlineBuf)
           /\ allocated' = IF dofree THEN FreeAlloc(allocated, _data) ELSE allocated
           /\ _data' = InlineBuf
           /\ _capacity' = N
           /\ _size' = 0
           /\ pc' \in AfterFree(badfree)
           /\ last' = Call("clear", "ok", NoArg, IF dofree THEN _data ELSE NoFree, badfree)
           /\ pushed' = <<>>

\* ------------------------------------------------------------------- erase
\* Control runs off the end of a function declared to return an iterator:
\* the caller gets whatever the return register holds, here begin(), end() of
\* the size sz, or no position of the buffer at all, or the process is aborted
\* at the end of the function (which then returns nothing).
NoPosition == -1
FellOffEnd(sz) ==
    {[pc |-> "alive", ret |-> r] : r \in {NoPosition, 0, sz}}
        \cup {[pc |-> "crashed", ret |-> NoPosition]}

\* erase(pos), pos given as an index: std::destroy_at on that element, and
\* nothing else.
erase(pos) ==
    /\ Callable
    /\ pos \in 0..(_size - 1)
    /\ Cardinality({i \in 1.._size : mem[_data][i] \notin Values}) < MaxDead
    /\ mem' = destroy_n(mem, _data, pos, 1)
    /\ UNCHANGED <<_data, _capacity, _size, allocated>>
    /\ \E r \in FellOffEnd(_size) :
        /\ pc' = r.pc
        /\ last' = Call("erase", "ok", r.ret, NoFree, FALSE)
    /\ pushed' = NotAPush(_size)

\* The object in dst after dst = std::move(src).
MoveAssigned(dst, src) == IF dst = Raw THEN Unspec ELSE MovedInto(src)

\* std::move(last, it1, first) inside block p: element by element, front to
\* back, move-assigned; it ends at it0 = first + (it1 - last).
std_move(m, p, first, lst, it1) ==
    LET d == lst - first
        it0 == it1 - d
    IN  [m EXCEPT ![p] = [i \in DOMAIN @ |->
            IF i > first /\ i <= it0 THEN MoveAssigned(@[i], @[i + d])
            ELSE IF i > it0 /\ i <= it1 /\ i > lst THEN MovedFrom(@[i])
            ELSE @[i]]]

\* erase(first, last), both given as indices.
erase_range(first, lst) ==
    /\ Callable
    /\ first \in 0.._size /\ lst \in 0.._size
    /\ IF first >= lst
       THEN Unchanged("erase_range", "ok", lst)
       ELSE /\ LET it1 == _size
                   it0 == first + (it1 - lst)
                   m1 == std_move(mem, _data, first, lst, it1)
               IN  /\ mem' = destroy_n(m1, _data, it0, it1 - it0)
                   /\ _size' = it0
                   /\ \E r \in FellOffEnd(it0) :
                        /\ pc' = r.pc
                        /\ last' = Call("erase_range", "ok", r.ret, NoFree, FALSE)
                   /\ pushed' = NotAPush(it0)
            /\ UNCHANGED <<_data, _capacity, allocated>>

\* ---------------------------------------------------------------------- at
\* The test taken one index early: the last element is out of range too.
AtThrows_last_too(off, sz) == off + 1 >= sz

\* if (off >= _size)

AtThrows(off, sz) == off >= sz

\* at(off), both overloads: _throw_invalid_subscript(), or return _data[off].
\* The reference returned is given as what the caller reads through it.
at(off) ==
    /\ Callable
    /\ last' = IF AtThrows(off, _size)
               THEN Call("at", "out_of_range", NoArg, NoFree, FALSE)
               ELSE Call("at", "ok", mem[_data][off + 1], NoFree, FALSE)
    /\ UNCHANGED <<_data, _capacity, _size, mem, allocated, pc, pushed>>

\* ------------------------------------------------------------------- empty
\* return !_data; converted to size_type.
empty ==
    /\ Callable
    /\ last' = Call("empty", "ok", IF _data = NullPtr THEN 1 ELSE 0, NoFree, FALSE)
    /\ UNCHANGED <<_data, _capacity, _size, mem, allocated, pc, pushed>>

\* -------------------------------------------------------------------- swap
\* The containers swap is called with: s elements, in the embedded buffer
\* while they fit and in a heap buffer of s slots beyond that, holding the
\* values k + 1, k + 2, ... (mod MaxVal + 1).
Others ==
    {[capacity |-> IF s <= N THEN N ELSE s, size |-> s,
      buf |-> [i \in 1..(IF s <= N THEN N ELSE s) |->
                 IF i <= s THEN (i + k) % (MaxVal + 1) ELSE Raw]] :
        s \in 0..(N + 1), k \in Values}

\* std::swap(a, b) on two slots: T tmp(std::move(a)); a = std::move(b);
\* b = std::move(tmp).  What it leaves in a and in b.
SwappedA(a, b) == MoveAssigned(MovedFrom(a), b)
SwappedB(a, b) == MoveAssigned(MovedFrom(b), MovedInto(a))

\* swap(other): std::swap_ranges(_data, _capacity, other._data), read as the
\* range of _capacity slots from _data, and only if both capacities are N.
\* Neither _size is touched.
swap(o) ==
    /\ Callable
    /\ IF _capacity = N /\ o.capacity = N
       THEN /\ mem' = [mem EXCEPT ![_data] = [i \in DOMAIN @ |->
                        IF i <= _capacity THEN SwappedA(@[i], o.buf[i]) ELSE @[i]]]
            /\ last' = [Call("swap", "ok", NoArg, NoFree, FALSE) EXCEPT
                        !.other = [o EXCEPT !.buf = [i \in DOMAIN @ |->
                            IF i <= _capacity THEN SwappedB(mem[_data][i], @[i]) ELSE @[i]]]]
       ELSE /\ mem' = mem
            /\ last' = [Call("swap", "ok", NoArg, NoFree, FALSE) EXCEPT !.other = o]
    /\ pushed' = NotAPush(_size)
    /\ UNCHANGED <<_data, _capacity, _size, allocated, pc>>

\* ------------------------------------------------------------- ~small_vector
destructor ==
    /\ Callable
    /\ LET m1 == destroy_n(mem, _data, 0, _size)
           dofree == OwnsHeap(_capacity)
           badfree == dofree /\ ~FreeIsValid(allocated, _data)
       IN  /\ mem' = IF dofree THEN FreeMem(m1, allocated, _data) ELSE m1
           /\ allocated' = IF dofree THEN FreeAlloc(allocated, _data) ELSE allocated
           /\ pc' = IF badfree THEN "crashed" ELSE "destroyed"
           /\ last' = Call("~small_vector", "ok", NoArg,
                           IF dofree THEN _data ELSE NoFree, badfree)
    /\ pushed' = NotAPush(_size)
    /\ UNCHANGED <<_data, _capacity, _size>>

\* ---------------------------------------------------------- specification
\* The sizes resize is called with: every size up to MaxLen, the first size
\* that exceeds max_size(), and the largest size_t.
ResizeSizes == (0..MaxLen) \cup {max_size + 1, SIZE_MAX}

\* The positions erase is called with, as indices from begin(); the calls
\* made are those with positions in [begin(), end()].
Positions == 0..MaxLen

\* The indices at is called with.
AtOffsets == Positions \cup {SIZE_MAX}

Next ==
    \/ \E v \in Values : push_back(v)
    \/ \E v \in Values : emplace_back(v)
    \/ \E n \in ResizeSizes : resize(n)
    \/ \E n \in ResizeSizes, v \in Values : resize_value(n, v)
    \/ shrink_to_fit
    \/ clear
    \/ \E pos \in Positions : erase(pos)
    \/ \E first \in Positions, lst \in Positions : erase_range(first, lst)
    \/ \E off \in AtOffsets : at(off)
    \/ empty
    \/ destructor
    \/ Return

\* One container and the calls made on it.
Spec == Init /\ [][Next]_vars

\* The same with callers that also swap the container with another one.
NextSwap ==
    \/ Next
    \/ \E o \in Others : swap(o)

SwapSpec == Init /\ [][NextSwap]_vars

\* ----------------------------------------------------- the growth by itself
\* _grow is private: it runs inside push_back, emplace_back and resize.  To
\* see it with every capacity and every request a size_t can hold, GrowSpec
\* starts from a container of any capacity c with up to MaxLen elements, in
\* the embedded buffer for c <= N and in a heap buffer of c slots beyond
\* that, and runs _grow(add) on it, alone and from inside its callers.
GrowCaps == 0..SIZE_MAX
GrowAdds == 0..SIZE_MAX

InitGrow ==
    \E c \in GrowCaps : \E n \in 0..Min(c, MaxLen) : \E e \in [1..n -> Values] :
        /\ _capacity = c
        /\ _size = n
        /\ _data = IF c <= N THEN InlineBuf ELSE 1
        /\ mem = [b \in {InlineBuf} \cup Blocks |->
                    IF b = _data
                    THEN [i \in 1..(IF b = InlineBuf THEN N ELSE c) |->
                            IF i <= n THEN e[i] ELSE Raw]
                    ELSE IF b = InlineBuf THEN RawBlock(N) ELSE <<>>]
        /\ allocated = IF c <= N THEN {} ELSE {1}
        /\ pc = "alive"
        /\ last = None
        /\ pushed = NotAPush(n)

\* _grow(add) and nothing else.
grow(add) ==
    /\ Callable
    /\ _size' = _size
    /\ \E p \in MallocResults :
        LET g == _grow(add, p)
        IN  /\ last' = Call("_grow", GrowOutcome(add, p), NoArg, g.freed, g.badfree)
            /\ _capacity' = g.capacity
            /\ _data' = g.data
            /\ mem' = g.mem
            /\ allocated' = g.allocated
            /\ pc' \in AfterFree(g.badfree)
    /\ pushed' = NotAPush(_size)

NextGrow ==
    \/ \E add \in GrowAdds : grow(add)
    \/ \E v \in Values : push_back(v)
    \/ \E v \in Values : emplace_back(v)
    \/ \E n \in ResizeSizes : resize(n)
    \/ \E n \in ResizeSizes, v \in Values : resize_value(n, v)
    \/ Return

GrowSpec == InitGrow /\ [][NextGrow]_vars

TypeOK ==
    /\ _data \in {InlineBuf} \cup Blocks
    /\ _capacity \in 0..SIZE_MAX
    /\ _size \in 0..SIZE_MAX
    /\ allocated \subseteq Blocks
    /\ pc \in {"alive", "destroyed", "crashed"}
    /\ Len(mem[InlineBuf]) = N
    /\ pc = "alive" => _size <= _capacity /\ _capacity <= Len(mem[_data])

\* ============================================================== properties
HeapMode == _data # InlineBuf
Failed(c) == c.outcome \in {"bad_alloc", "length_error"}

\* C1: in every state reachable by push_back, emplace_back, resize, erase,
\* clear and shrink_to_fit, failed calls included, capacity() >= size() and
\* capacity() >= N.
C1_CapacityAtLeastSizeAndN ==
    pc = "alive" => _capacity >= _size /\ _capacity >= N

\* C2: in every reachable state capacity == N holds exactly when _data points
\* at the embedded buffer.
C2_CapacityNIffInline ==
    pc = "alive" => ((_capacity = N) <=> (_data = InlineBuf))

\* C3: whatever is handed to std::free is a heap block the container owns at
\* that moment: never the embedded buffer, never a block already freed.
C3_FreesOnlyOwnedHeapBlock ==
    last.freed # NoFree => last.freed \in Blocks /\ ~last.badfree

\* C4: a call of push_back, emplace_back, resize or shrink_to_fit that fails
\* with bad_alloc or length_error leaves size, capacity, the data pointer, the
\* elements and the owned buffer exactly as they were before the call.
C4_FailedCallChangesNothing ==
    [][Failed(last') => UNCHANGED <<_data, _capacity, _size, mem, allocated>>]_vars

\* A growth that failed on a container that is on the heap and holds elements.
C4_Witness ==
    /\ Failed(last)
    /\ last.op \in {"push_back", "emplace_back", "resize", "resize_value"}
    /\ HeapMode
    /\ _size > N

\* C5: after any sequence of successful push_back calls on an empty container
\* size() is the number of calls and the elements are the pushed values in the
\* order of the calls.
C5_PushBackAppendsInOrder ==
    pushed # Stale => _size = Len(pushed) /\ Elems = pushed

\* Pushes that took the container from the embedded buffer to the heap and
\* made it grow again there, with values that tell the order.
C5_Witness ==
    /\ pushed # Stale
    /\ last.op = "push_back" /\ last.outcome = "ok"
    /\ Len(pushed) >= N + 2
    /\ last.freed \in Blocks
    /\ pushed[1] # pushed[2]

\* C6: erase(pos) on a valid position takes size() down by one, removes the
\* element at pos, keeps the others in their order with those behind pos moved
\* down one slot, and returns pos.
C6_ErasePosRemovesOne ==
    [][\A pos \in Positions :
        erase(pos) =>
            /\ _size' = _size - 1
            /\ \A i \in 1..(_size - 1) :
                mem'[_data'][i] = IF i <= pos THEN Elems[i] ELSE Elems[i + 1]
            /\ last'.ret = pos]_vars

\* C7: erase(first, last) with first < last removes the last - first elements
\* of [first, last), keeps those before first and moves the tail down to
\* first, sets size to size - (last - first) and returns first; with
\* first >= last it changes nothing and returns last.
C7_EraseRangeRemovesRange ==
    [][\A first \in Positions, lst \in Positions :
        erase_range(first, lst) =>
            IF first >= lst
            THEN /\ UNCHANGED <<_data, _capacity, _size, mem, allocated>>
                 /\ last'.ret = lst
            ELSE /\ _size' = _size - (lst - first)
                 /\ \A i \in 1.._size' :
                     mem'[_data'][i] = IF i <= first THEN Elems[i] ELSE Elems[i + (lst - first)]
                 /\ last'.ret = first]_vars

\* C8: a successful shrink_to_fit on a container on the heap with
\* size() <= N leaves _data at the embedded buffer and capacity() == N.
C8_ShrinkReturnsToInline ==
    [][(last'.op = "shrink_to_fit" /\ last'.outcome = "ok" /\ HeapMode /\ _size <= N)
        => (_data' = InlineBuf /\ _capacity' = N)]_vars

\* C9: clear ends with size() == 0, capacity() == N and _data at the embedded
\* buffer, releases the heap buffer exactly when the container was on the
\* heap, and never fails.
C9_ClearResetsAndReleases ==
    [][last'.op = "clear" =>
        /\ _size' = 0 /\ _capacity' = N /\ _data' = InlineBuf
        /\ last'.outcome = "ok"
        /\ (last'.freed # NoFree) <=> HeapMode
        /\ HeapMode => last'.freed = _data /\ ~last'.badfree /\ _data \notin allocated']_vars

\* What C10 says of a successful resize to n that fills with the value fill.
ResizePost(n, fill) ==
    /\ _size' = n
    /\ \A i \in 1..Min(_size, n) :
        mem[_data][i] \in Values => mem'[_data'][i] = mem[_data][i]
    /\ n > _size => \A i \in (_size + 1)..n : mem'[_data'][i] = fill
    /\ n < _size =>
        /\ \A i \in (n + 1).._size : mem'[_data'][i] = Raw
        /\ \A i \in 1..n : mem'[_data'][i] = mem[_data][i]
        /\ _capacity' = _capacity /\ _data' = _data

\* C10: a successful resize(n) or resize(n, v) ends with size() == n and the
\* first min(old size, n) elements unchanged; growing, the new slots hold T{}
\* (or copies of v); shrinking, exactly the elements [n, old size) are
\* destroyed and the capacity is unchanged.
C10_ResizeSetsSize ==
    [][/\ (last'.op = "resize" /\ last'.outcome = "ok") =>
            \A n \in ResizeSizes : resize(n) => ResizePost(n, 0)
       /\ (last'.op = "resize_value" /\ last'.outcome = "ok") =>
            \A n \in ResizeSizes, v \in Values : resize_value(n, v) => ResizePost(n, v)]_vars

\* A resize that had to grow onto the heap, kept a pushed value in front and
\* value-initialized the new last element.
C10_Witness ==
    /\ last.op = "resize" /\ last.outcome = "ok"
    /\ HeapMode /\ _size > N
    /\ last.freed = NoFree
    /\ Elems[1] = 1 /\ Elems[_size] = 0

\* C11: in every reachable state and for every index i, at(i) throws
\* out_of_range exactly when i >= size(); for i < size() it returns the element
\* stored at index i; either way it leaves the container unchanged.
C11_AtChecksIndex ==
    [][last'.op = "at" =>
        \A off \in AtOffsets :
            at(off) =>
                /\ (last'.outcome = "out_of_range") <=> (off >= _size)
                /\ off < _size => last'.outcome = "ok" /\ last'.ret = Elems[off + 1]
                /\ UNCHANGED <<_data, _capacity, _size, mem, allocated, pc>>]_vars

\* at returned the last element of a container on the heap, and it is the
\* value 1 behind a 0.
C11_Witness ==
    /\ last.op = "at" /\ last.outcome = "ok" /\ last.ret = 1
    /\ HeapMode /\ _size > N
    /\ Elems[_size] = 1 /\ Elems[1] = 0

\* C12: after a.swap(b), whatever the storage modes and sizes of the two, a
\* has the size and the elements b had before the call, and b those of a.
C12_SwapExchangesContents ==
    [][\A o \in Others :
        swap(o) =>
            /\ _size' = o.size
            /\ \A i \in 1..o.size : mem'[_data'][i] = o.buf[i]
            /\ last'.other.size = _size
            /\ \A i \in 1.._size : last'.other.buf[i] = Elems[i]]_vars

\* C13: in every reachable state empty() returns true exactly when
\* size() == 0.
C13_EmptyIffSizeZero ==
    last.op = "empty" => ((last.ret # 0) <=> (_size = 0))

\* C14: after every public operation exactly the slots [0, size) of the
\* current buffer hold constructed elements: none of [size, capacity) holds
\* one, and none of [0, size) has been destroyed.
C14_ExactlyFirstSizeSlotsLive ==
    pc = "alive" =>
        \A i \in DOMAIN mem[_data] : (mem[_data][i] # Raw) <=> (i <= _size)

\* cap + max(add, cap / 2) as a number, not as a size_t.
ExactSum(cap, add) == cap + Max(add, cap \div 2)

\* C15: with size_t a Bits-bit unsigned integer, _grow(add) fails with
\* length_error, before it allocates or changes anything, for every capacity
\* and add whose exact sum capacity + max(add, capacity / 2) exceeds SIZE_MAX
\* (the size_t sum wraps) or max_size(); a new capacity it accepts is the
\* exact sum, never a wrapped one.
C15_GrowRejectsOverflow ==
    [][last'.op = "_grow" =>
        \A add \in GrowAdds :
            grow(add) =>
                /\ (ExactSum(_capacity, add) > SIZE_MAX \/ ExactSum(_capacity, add) > max_size)
                     => /\ last'.outcome = "length_error"
                        /\ UNCHANGED <<_data, _capacity, _size, mem, allocated, pc>>
                /\ last'.outcome = "ok" => _capacity' = ExactSum(_capacity, add)]_vars

\* _grow refused a request on a capacity so large that every sum wraps.
C15_Witness ==
    /\ last.op = "_grow" /\ last.outcome = "length_error"
    /\ _capacity + _capacity \div 2 > SIZE_MAX
    /\ _size > 0

\* What C16 says of a growth by k that found the capacity c: the new
\* capacity, and the elements it had to carry over.
GrowthPost(c, k) ==
    /\ _capacity' = c + Max(k, c \div 2)
    /\ _capacity' >= c + k
    /\ _capacity' <= max_size
    /\ \A i \in 1.._size : mem'[_data'][i] = mem[_data][i]

\* C16: every successful growth from capacity c that needed k more slots
\* (k = 1 in push_back and emplace_back, k = newSize - c in resize) ends with
\* capacity c + max(k, c / 2), which is >= c + k and <= max_size(); the
\* growth itself changes neither the size nor the elements.
C16_GrowthFormula ==
    [][last'.outcome = "ok" =>
        /\ last'.op = "_grow" =>
            \A k \in GrowAdds : grow(k) => GrowthPost(_capacity, k) /\ _size' = _size
        /\ (last'.op \in {"push_back", "emplace_back"} /\ _size = _capacity) =>
            GrowthPost(_capacity, 1)
        /\ last'.op = "resize" =>
            \A n \in ResizeSizes :
                (n > _capacity /\ resize(n)) => GrowthPost(_capacity, n - _capacity)
        /\ last'.op = "resize_value" =>
            \A n \in ResizeSizes, v \in Values :
                (n > _capacity /\ resize_value(n, v)) => GrowthPost(_capacity, n - _capacity)]_vars

\* A growth from one heap buffer to another that carried MaxLen elements
\* over and reached max_size().
C16_Witness ==
    /\ last.op = "_grow" /\ last.outcome = "ok"
    /\ _capacity = max_size
    /\ last.freed \in Blocks
    /\ _size = MaxLen

\* C17: push_back, emplace_back, resize and erase never take a container
\* that is on the heap back to the embedded buffer: over any sequence of
\* calls a step from the heap to the embedded buffer is a clear, or a
\* shrink_to_fit called with size() <= N.
C17_BackToInlineOnlyByShrinkOrClear ==
    [][(HeapMode /\ _data' = InlineBuf) =>
        \/ last'.op = "clear"
        \/ last'.op = "shrink_to_fit" /\ _size <= N]_vars

\* shrink_to_fit has just taken N elements from the heap into the embedded
\* buffer.
C17_Witness ==
    /\ last.op = "shrink_to_fit" /\ last.outcome = "ok"
    /\ last.freed \in Blocks /\ ~last.badfree
    /\ _data = InlineBuf
    /\ _size = N
    /\ Elems[N] = 1

\* C18: shrink_to_fit never changes size() or the elements; called with
\* capacity == N or size == capacity it also leaves _data and the capacity
\* alone and neither allocates nor releases.
C18_ShrinkKeepsContents ==
    [][last'.op = "shrink_to_fit" =>
        /\ _size' = _size
        /\ \A i \in 1.._size : mem'[_data'][i] = mem[_data][i]
        /\ (_capacity = N \/ _size = _capacity) =>
            /\ UNCHANGED <<_data, _capacity, mem, allocated>>
            /\ last'.freed = NoFree]_vars

\* C19: every element constructed in container storage is destroyed, and no
\* buffer is abandoned while one of its slots still holds a constructed
\* (moved-from included) element: as long as the process runs, the only
\* constructed elements in memory are the elements [0, size) of the buffer
\* _data points at, and none is left once the destructor has run.
C19_NoElementLeftBehind ==
    pc # "crashed" =>
        \A b \in DOMAIN mem : \A i \in DOMAIN mem[b] :
            mem[b][i] # Raw => (pc = "alive" /\ b = _data /\ i <= _size)

\* C20: push_back and emplace_back called with size() < capacity(), resize(n)
\* with n <= capacity() and both erase overloads leave _data, the buffer it
\* points at and the capacity as they are, so the addresses of the elements
\* stay valid.
C20_NoReallocationUnlessNeeded ==
    [][/\ (last'.op \in {"push_back", "emplace_back"} /\ _size < _capacity) =>
            UNCHANGED <<_data, _capacity, allocated>>
       /\ last'.op \in {"erase", "erase_range"} =>
            UNCHANGED <<_data, _capacity, allocated>>
       /\ last'.op = "resize" =>
            \A n \in ResizeSizes :
                (n <= _capacity /\ resize(n)) => UNCHANGED <<_data, _capacity, allocated>>
       /\ last'.op = "resize_value" =>
            \A n \in ResizeSizes, v \in Values :
                (n <= _capacity /\ resize_value(n, v)) =>
                    UNCHANGED <<_data, _capacity, allocated>>]_vars

\* A push_back into spare capacity of a heap buffer.
C20_Witness ==
    /\ last.op = "push_back" /\ last.outcome = "ok"
    /\ HeapMode
    /\ _size < _capacity
    /\ last.freed = NoFree
    /\ Elems[_size] = 1

====
